---- MODULE Spec2Model ----
(***************************************************************************)
(* Model of the question-to-insight pipeline of the e-commerce agent:      *)
(* EcommerceAgent (_sanitize_sql, generate_sql, execute_query,             *)
(* generate_answer, generate_visualization, query, _get_suggestion) and    *)
(* the /ask route that wraps it.                                           *)
(*                                                                         *)
(* Text is modelled as a sequence of tokens, each token a run of           *)
(* characters of the real text.  The tokens are chosen so that the         *)
(* substring tests of the code ('delete ' in sql.lower(), startswith)      *)
(* are exactly sub-sequence tests on the tokens: no keyword straddles two  *)
(* tokens.                                                                 *)
(***************************************************************************)
EXTENDS Integers, Sequences, FiniteSets, TLC

\* ------------------------------------------------------------------ bounds
\* longest raw text given to _sanitize_sql in SanitizeSpec
MaxLen == 4
\* longest completion text in the pipeline specification
MaxRawLen == 4
\* most rows of a ResultSet
MaxRows == 1
\* cap on simultaneously open connections (never reached by the code)
MaxConns == 2

\* ------------------------------------------------------------------- text
SP == " "
\* a tab character (any whitespace character other than the space)
TAB == "<TAB>"
\* the three-backtick markdown fence
FENCE == "<fence>"
\* the fence followed by the word sql, in any casing
FENCESQL == "<fence>sql"
SEMI == ";"

\* str.lower() on one token
LowerTok(t) ==
  CASE t = "SELECT" -> "select"
    [] t = "DELETE" -> "delete"
    [] t = "Generated query is not a " -> "generated query is not a "
    [] t = "Query contains forbidden operations: " -> "query contains forbidden operations: "
    [] t = "SQL execution failed: " -> "sql execution failed: "
    [] t = "<NL>Query: " -> "<NL>query: "
    [] t = "(sqlite3.OperationalError) " -> "(sqlite3.operationalerror) "
    [] t = "[SQL: " -> "[sql: "
    [] t = "Ollama call failed with status code 404" -> "ollama call failed with status code 404"
    [] OTHER -> t

\* str.lower()
Lower(s) == [i \in 1..Len(s) |-> LowerTok(s[i])]

\* needle in hay (the substring test of Python), needle non-empty
Contains(hay, needle) ==
  \E i \in 1..Len(hay) :
     /\ i + Len(needle) - 1 <= Len(hay)
     /\ SubSeq(hay, i, i + Len(needle) - 1) = needle

\* hay.startswith(prefix)
StartsWith(hay, prefix) ==
  /\ Len(prefix) <= Len(hay)
  /\ SubSeq(hay, 1, Len(prefix)) = prefix

IsWhitespace(t) == t \in {SP, TAB}

RECURSIVE LStrip(_)
\* str.lstrip()
LStrip(s) ==
  IF s # <<>> /\ IsWhitespace(Head(s)) THEN LStrip(Tail(s)) ELSE s

RECURSIVE RStrip(_)
\* str.rstrip()
RStrip(s) ==
  IF s # <<>> /\ IsWhitespace(s[Len(s)]) THEN RStrip(SubSeq(s, 1, Len(s) - 1)) ELSE s

\* str.strip()
Strip(s) == RStrip(LStrip(s))

RECURSIVE RStripSemi(_)
\* sql.rstrip(';'): removes every trailing ';'
RStripSemi(s) ==
  IF s # <<>> /\ s[Len(s)] = SEMI THEN RStripSemi(SubSeq(s, 1, Len(s) - 1)) ELSE s

\* re.sub of the fence markers by the empty string, flags=re.IGNORECASE
RemoveFences(s) == SelectSeq(s, LAMBDA t : t \notin {FENCE, FENCESQL})

\* the text after the two cleaning statements of _sanitize_sql
Normalize(s) == RStripSemi(Strip(RemoveFences(s)))

\* forbidden = ['insert ', 'update ', 'delete ', 'drop ', 'alter ', 'truncate ', 'create ']
forbidden ==
  { <<"insert", SP>>, <<"update", SP>>, <<"delete", SP>>, <<"drop", SP>>,
    <<"alter", SP>>, <<"truncate", SP>>, <<"create", SP>> }

\* a faulty variant of HasForbidden: the scan is done on the text as written, not lower-cased
HasForbiddenCaseSensitive(sql) == \E cmd \in forbidden : Contains(sql, cmd)

\* a faulty variant of HasForbidden: the scan is left out
HasForbiddenNever(sql) == FALSE

\* any(cmd in sql.lower() for cmd in forbidden)
HasForbidden(sql) == \E cmd \in forbidden : Contains(Lower(sql), cmd)

\* sql.lower().lstrip().startswith('select')
IsSelect(sql) == StartsWith(LStrip(Lower(sql)), <<"select">>)

Ok(sql) == [ok |-> TRUE, sql |-> sql, error |-> <<>>]
Raise(msg) == [ok |-> FALSE, sql |-> <<>>, error |-> msg]

\* EcommerceAgent._sanitize_sql: the cleaned text, or the ValueError it raises
_sanitize_sql(raw) ==
  LET sql == Normalize(raw) IN
  IF ~IsSelect(sql)
    THEN Raise(<<"Generated query is not a ", "SELECT", " statement: ">> \o sql)
  ELSE IF HasForbidden(sql)
    THEN Raise(<<"Query contains forbidden operations: ">> \o sql)
  ELSE Ok(sql)

\* texts of at most n tokens over alphabet A
TextsOver(A, n) == UNION { [1..k -> A] : k \in 0..n }

\* ------------------------------------------------------------ optional values
\* None, and a value that is present
None == <<>>
Some(v) == <<v>>

\* ----------------------------------------------------------------- ResultSet
\* the columns the chart rules of generate_visualization look at
Cols == {"date", "total_sales", "ad_sales", "item_id", "ad_spend"}

\* cell values the store may return in a column, each scalar written as its
\* text; "not a date" is a text that pd.to_datetime cannot parse
ColValues(c) ==
  CASE c = "date" -> {"2024-01-02", "not a date"}
    [] c = "ad_spend" -> {"0.0", "2.0"}
    [] c = "ad_sales" -> {"4.0"}
    [] c = "total_sales" -> {"5.0"}
    [] OTHER -> {"1"}

Parseable(v) == v = "2024-01-02"

\* pd.to_datetime on one cell: a Timestamp, not the text it was parsed from
ToDatetime(v) == IF v = "2024-01-02" THEN "Timestamp('2024-01-02 00:00:00')" ELSE v

\* rows over a column set: each row maps a column name to a scalar
RowsOver(cols) ==
  { r \in [cols -> UNION { ColValues(c) : c \in cols }] : \A c \in cols : r[c] \in ColValues(c) }

\* the DataFrames pd.read_sql may return: at least one column, 0..MaxRows rows
ResultSets ==
  UNION { { [columns |-> cols, rows |-> rows] :
              rows \in UNION { [1..n -> RowsOver(cols)] : n \in 0..MaxRows } } :
          cols \in (SUBSET Cols) \ {{}} }

\* DataFrame.empty
Empty(d) == Len(d.rows) = 0 \/ d.columns = {}

\* ad_sales / ad_spend as pandas computes it: the exact quotient, non-finite
\* (inf or nan) when the divisor is 0; no exception is raised
Ratio(a, b) == [num |-> a, den |-> b]
IsFinite(q) == q.den # "0.0"

\* --------------------------------------------------------- error messages
\* str(e) of the errors the completion capability may raise
CompletionErrors ==
  { <<"Ollama call failed with status code 404">>,
    <<"model failed to ", "select", " a backend">> }

\* str(e) of the errors the store may raise for a statement
StoreErrors(sql) ==
  { <<"(sqlite3.OperationalError) ", what, "<NL>", "[SQL: ">> \o sql \o <<"]">> :
      what \in {"no such table", "no such column", "near x: syntax error"} }

\* str(e) of the error engine.connect() may raise
ConnectErrors == { <<"(sqlite3.OperationalError) ", "unable to open database file">> }

\* a faulty variant of ExecutionFailed: the executed SQL is not appended
ExecutionFailedWithoutQuery(e, sql) == <<"SQL execution failed: ">> \o e

\* the ValueError message of execute_query
ExecutionFailed(e, sql) == <<"SQL execution failed: ">> \o e \o <<"<NL>Query: ">> \o sql

TableSuggestion == "Try rephrasing to use sales_metrics, ad_metrics, or product_eligibility tables"
ColumnSuggestion == "Available columns: date, item_id, total_sales, ad_sales, ad_spend, etc."
ExampleSuggestion == "Ask about data queries like 'Show me sales for product X' or 'Compare ad performance'"
GenericSuggestion == "Try being more specific about what data you need"

\* a faulty variant of _get_suggestion: the 'select' rule is tested first
_get_suggestion_select_first(error) ==
  IF Contains(Lower(error), <<"select">>) THEN ExampleSuggestion
  ELSE IF Contains(Lower(error), <<"no such table">>) THEN TableSuggestion
  ELSE IF Contains(Lower(error), <<"no such column">>) THEN ColumnSuggestion
  ELSE GenericSuggestion

\* EcommerceAgent._get_suggestion (the question is not looked at)
_get_suggestion(error) ==
  IF Contains(Lower(error), <<"no such table">>) THEN TableSuggestion
  ELSE IF Contains(Lower(error), <<"no such column">>) THEN ColumnSuggestion
  ELSE IF Contains(Lower(error), <<"select">>) THEN ExampleSuggestion
  ELSE GenericSuggestion

\* --------------------------------------------------------- visualization
\* the base64 text of the PNG of the current figure, named by what is drawn
\* on it; "" is the figure plt.figure() made, with nothing plotted
Png(title) == [title |-> title]

\* generate_visualization on DataFrame d: the value returned and the DataFrame
\* as the caller sees it afterwards.  plotRaises is the answer of the plotting
\* library when asked to draw bars of a non-finite height.
generate_visualization(d, plotRaises) ==
  IF Empty(d) THEN [viz |-> None, data |-> d]
  ELSE IF "date" \in d.columns THEN
    IF \E i \in 1..Len(d.rows) : ~Parseable(d.rows[i]["date"])
      \* pd.to_datetime raises before the assignment: caught, viz stays None
      THEN [viz |-> None, data |-> d]
      ELSE
        LET \* data['date'] = pd.to_datetime(data['date']) assigns into the
            \* caller's DataFrame; data.sort_values rebinds the local name only
            conv == [d EXCEPT !.rows =
                       [i \in 1..Len(d.rows) |->
                          [d.rows[i] EXCEPT !["date"] = ToDatetime(d.rows[i]["date"])]]]
        IN  [viz |-> Some(Png(IF "total_sales" \in d.columns THEN "Sales Trend"
                              ELSE IF "ad_sales" \in d.columns THEN "Ad Performance"
                              ELSE "")),
             data |-> conv]
  ELSE IF {"item_id", "ad_sales", "ad_spend"} \subseteq d.columns THEN
    LET \* data['ROAS'] = ... adds the column to the caller's DataFrame
        withRoas == [columns |-> d.columns \cup {"ROAS"},
                     rows |-> [i \in 1..Len(d.rows) |->
                                 [c \in d.columns \cup {"ROAS"} |->
                                    IF c = "ROAS"
                                      THEN Ratio(d.rows[i]["ad_sales"], d.rows[i]["ad_spend"])
                                      ELSE d.rows[i][c]]]]
        finite == \A i \in 1..Len(d.rows) : IsFinite(withRoas.rows[i]["ROAS"])
    IN  IF ~finite /\ plotRaises
          THEN [viz |-> None, data |-> withRoas]
          ELSE [viz |-> Some(Png("Return on Ad Spend")), data |-> withRoas]
  ELSE [viz |-> Some(Png("")), data |-> d]

\* ------------------------------------------------------------------- state
VARIABLES
  pc,            \* where the request is: in ask_question, in query, or between requests
  rawText,       \* the text the completion capability returned for the SQL prompt
  sql,           \* query's local sql: None until generate_sql has returned
  data,          \* query's local data: the DataFrame object, None until read
  executed,      \* the DataFrame as execute_query returned it
  answer,        \* query's local answer
  answerInput,   \* the DataFrame as generate_answer serialized it into the prompt
  visualization, \* query's local visualization
  exc,           \* the exception caught by query's except clause: its str(e)
  raisedBy,      \* the stage that raised it
  calls,         \* the stages query has invoked, in order
  execArgs,      \* the texts execute_query was invoked with
  conns,         \* connections of the engine that are open
  opened,        \* connections opened by the current execute_query call
  connsAtRead,   \* connections open when pd.read_sql materialized the rows
  response,      \* what query returned
  http,          \* what ask_question answered
  input,         \* SanitizeSpec: the raw text
  first,         \* SanitizeSpec: _sanitize_sql(input)
  second,        \* SanitizeSpec: _sanitize_sql of the text the first call returned
  step           \* SanitizeSpec: how many calls have been made

vars == << pc, rawText, sql, data, executed, answer, answerInput, visualization,
           exc, raisedBy, calls, execArgs, conns, opened, connsAtRead, response,
           http, input, first, second, step >>

sanitizeVars == << input, first, second, step >>
locals == << rawText, sql, data, executed, answer, answerInput, visualization,
             exc, raisedBy, calls, execArgs, opened, connsAtRead >>

\* the order in which query invokes its stages
StageOrder == << "generate_sql", "execute_query", "generate_answer", "generate_visualization" >>

\* tokens the completion text is made of in the pipeline specification
RawAlphabet == {"select", "DELETE", SP}
RawTexts == TextsOver(RawAlphabet, MaxRawLen)

\* tokens of the raw texts given to _sanitize_sql in SanitizeSpec
Alphabet == {"select", "SELECT", "DELETE", "drop", SP, TAB, SEMI, FENCE, "x"}
Texts == TextsOver(Alphabet, MaxLen)

NoResult == [ok |-> FALSE, sql |-> <<>>, error |-> <<>>]

InitLocals ==
  /\ rawText = None /\ sql = None /\ data = None /\ executed = None
  /\ answer = None /\ answerInput = None /\ visualization = None
  /\ exc = None /\ raisedBy = "" /\ calls = <<>> /\ execArgs = <<>>
  /\ opened = 0 /\ connsAtRead = None

Init ==
  /\ pc = "idle"
  /\ InitLocals
  /\ conns = 0
  /\ response = None /\ http = None
  /\ input = <<>> /\ first = NoResult /\ second = NoResult /\ step = 0

\* ask_question is entered and calls agent.query(question.text)
AskQuestion ==
  /\ pc = "idle"
  /\ pc' = "generate_sql"
  /\ rawText' = None /\ sql' = None /\ data' = None /\ executed' = None
  /\ answer' = None /\ answerInput' = None /\ visualization' = None
  /\ exc' = None /\ raisedBy' = "" /\ calls' = <<>> /\ execArgs' = <<>>
  /\ opened' = 0 /\ connsAtRead' = None
  /\ response' = None /\ http' = None
  /\ UNCHANGED << conns, sanitizeVars >>

\* a faulty variant of RaiseIn: a failure of execute_query is recorded but the next
\* stage is invoked all the same
RaiseInGoesOn(stage, e) ==
  /\ exc' = Some(e)
  /\ raisedBy' = stage
  /\ pc' = IF stage = "execute_query" THEN "generate_answer" ELSE "except"

\* a stage raised e: control goes to query's except clause
RaiseIn(stage, e) ==
  /\ exc' = Some(e)
  /\ raisedBy' = stage
  /\ pc' = "except"

\* generate_sql, the completion capability failing
GenerateSqlCompletionFails ==
  /\ pc = "generate_sql"
  /\ calls' = Append(calls, "generate_sql")
  /\ \E e \in CompletionErrors : RaiseIn("generate_sql", e)
  /\ UNCHANGED << rawText, sql, data, executed, answer, answerInput, visualization,
                  execArgs, conns, opened, connsAtRead, response, http, sanitizeVars >>

\* generate_sql: chain.run(...).strip(), then _sanitize_sql
GenerateSql ==
  /\ pc = "generate_sql"
  /\ calls' = Append(calls, "generate_sql")
  /\ \E text \in RawTexts :
       LET r == _sanitize_sql(Strip(text)) IN
       /\ rawText' = Some(text)
       /\ IF r.ok
            THEN /\ sql' = Some(r.sql)
                 /\ pc' = "execute_query"
                 /\ UNCHANGED << exc, raisedBy >>
            ELSE /\ RaiseIn("generate_sql", r.error)
                 /\ UNCHANGED sql
  /\ UNCHANGED << data, executed, answer, answerInput, visualization,
                  execArgs, conns, opened, connsAtRead, response, http, sanitizeVars >>

\* execute_query is invoked and enters the with statement: engine.connect()
ExecuteQueryConnect ==
  /\ pc = "execute_query"
  /\ conns < MaxConns
  /\ calls' = Append(calls, "execute_query")
  /\ execArgs' = Append(execArgs, sql[1])
  /\ \/ /\ conns' = conns + 1
        /\ opened' = opened + 1
        /\ pc' = "read_sql"
        /\ UNCHANGED << exc, raisedBy >>
     \/ /\ \E e \in ConnectErrors : RaiseIn("execute_query", ExecutionFailed(e, sql[1]))
        /\ UNCHANGED << conns, opened >>
  /\ UNCHANGED << rawText, sql, data, executed, answer, answerInput, visualization,
                  connsAtRead, response, http, sanitizeVars >>

\* a faulty variant of ExecuteQueryRead: the connection is closed on the successful
\* return only, not when pd.read_sql raises
ExecuteQueryReadLeaks ==
  /\ pc = "read_sql"
  /\ \/ /\ \E d \in ResultSets : data' = Some(d) /\ executed' = Some(d)
        /\ connsAtRead' = Some(conns)
        /\ conns' = conns - 1
        /\ pc' = "generate_answer"
        /\ UNCHANGED << exc, raisedBy >>
     \/ /\ \E e \in StoreErrors(sql[1]) : RaiseIn("execute_query", ExecutionFailed(e, sql[1]))
        /\ UNCHANGED << data, executed, connsAtRead, conns >>
  /\ UNCHANGED << rawText, sql, answer, answerInput, visualization, calls, execArgs,
                  opened, response, http, sanitizeVars >>

\* execute_query: pd.read_sql(sql, conn) inside the with statement, whose exit
\* closes the connection whether read_sql returned or raised
ExecuteQueryRead ==
  /\ pc = "read_sql"
  /\ conns' = conns - 1
  /\ \/ /\ \E d \in ResultSets : data' = Some(d) /\ executed' = Some(d)
        /\ connsAtRead' = Some(conns)
        /\ pc' = "generate_answer"
        /\ UNCHANGED << exc, raisedBy >>
     \/ /\ \E e \in StoreErrors(sql[1]) : RaiseIn("execute_query", ExecutionFailed(e, sql[1]))
        /\ UNCHANGED << data, executed, connsAtRead >>
  /\ UNCHANGED << rawText, sql, answer, answerInput, visualization, calls, execArgs,
                  opened, response, http, sanitizeVars >>

\* generate_answer: the rows are serialized into the prompt and the completion
\* capability narrates them, or fails
GenerateAnswer ==
  /\ pc = "generate_answer"
  /\ calls' = Append(calls, "generate_answer")
  /\ answerInput' = data
  /\ \/ /\ answer' = Some("prose")
        /\ pc' = "generate_visualization"
        /\ UNCHANGED << exc, raisedBy >>
     \/ /\ \E e \in CompletionErrors : RaiseIn("generate_answer", e)
        /\ UNCHANGED answer
  /\ UNCHANGED << rawText, sql, data, executed, visualization, execArgs, conns,
                  opened, connsAtRead, response, http, sanitizeVars >>

\* generate_visualization: it returns, never raises; the DataFrame it was
\* given is the caller's object
GenerateVisualization ==
  /\ pc = "generate_visualization"
  /\ calls' = Append(calls, "generate_visualization")
  /\ \E plotRaises \in BOOLEAN :
       LET r == generate_visualization(data[1], plotRaises) IN
       /\ visualization' = r.viz
       /\ data' = Some(r.data)
  /\ pc' = "return"
  /\ UNCHANGED << rawText, sql, executed, answer, answerInput, exc, raisedBy, execArgs,
                  conns, opened, connsAtRead, response, http, sanitizeVars >>

\* query's return statement of the try block
QueryReturn ==
  /\ pc = "return"
  /\ response' = Some([success |-> TRUE,
                       answer |-> answer[1],
                       data |-> data[1],
                       visualization |-> visualization,
                       sql |-> sql[1]])
  /\ pc' = "returned"
  /\ UNCHANGED << locals, conns, http, sanitizeVars >>

\* query's except clause
QueryExcept ==
  /\ pc = "except"
  /\ response' = Some([success |-> FALSE,
                       error |-> exc[1],
                       suggestion |-> _get_suggestion(exc[1]),
                       sql |-> sql])
  /\ pc' = "returned"
  /\ UNCHANGED << locals, conns, http, sanitizeVars >>

\* ask_question after query returned: HTTPException(400) or the response
AskQuestionResponds ==
  /\ pc = "returned"
  /\ http' = IF "error" \in DOMAIN response[1]
               THEN Some([status |-> 400,
                          detail |-> [error |-> response[1].error,
                                      suggestion |-> response[1].suggestion]])
               ELSE Some([status |-> 200, body |-> response[1]])
  /\ pc' = "idle"
  /\ UNCHANGED << locals, conns, response, sanitizeVars >>

Next ==
  \/ AskQuestion
  \/ GenerateSqlCompletionFails
  \/ GenerateSql
  \/ ExecuteQueryConnect
  \/ ExecuteQueryRead
  \/ GenerateAnswer
  \/ GenerateVisualization
  \/ QueryReturn
  \/ QueryExcept
  \/ AskQuestionResponds

Spec == Init /\ [][Next]_vars

\* ------------------------------------------------ _sanitize_sql on its own
InitSanitize ==
  /\ pc = "sanitize"
  /\ InitLocals
  /\ conns = 0
  /\ response = None /\ http = None
  /\ input \in Texts
  /\ first = NoResult /\ second = NoResult /\ step = 0

\* _sanitize_sql(input)
Sanitize ==
  /\ pc = "sanitize" /\ step = 0
  /\ first' = _sanitize_sql(input)
  /\ step' = 1
  /\ UNCHANGED << pc, locals, conns, response, http, input, second >>

\* _sanitize_sql of the text the first call returned
SanitizeAgain ==
  /\ pc = "sanitize" /\ step = 1 /\ first.ok
  /\ second' = _sanitize_sql(first.sql)
  /\ step' = 2
  /\ UNCHANGED << pc, locals, conns, response, http, input, first >>

NextSanitize == Sanitize \/ SanitizeAgain

SanitizeSpec == InitSanitize /\ [][NextSanitize]_vars

\* ================================================================== claims
\* the seven mutating keywords
Keywords == {"insert", "update", "delete", "drop", "alter", "truncate", "create"}

\* query returned a Failure whose error is one of the two messages of _sanitize_sql
ValidationFailure ==
  /\ response # None
  /\ ~response[1].success
  /\ \/ StartsWith(response[1].error, <<"Generated query is not a ">>)
     \/ StartsWith(response[1].error, <<"Query contains forbidden operations: ">>)

\* execute_query was handed nothing but the text _sanitize_sql returned for the
\* completion text of this run
ExecutedOnlySanitized ==
  execArgs # <<>> =>
     /\ rawText # None
     /\ LET r == _sanitize_sql(Strip(rawText[1])) IN
        /\ r.ok
        /\ \A i \in 1..Len(execArgs) : execArgs[i] = r.sql
     /\ \A i \in 1..Len(execArgs) :
          LET low == Lower(execArgs[i]) IN
          /\ StartsWith(low, <<"select">>)
          /\ \A kw \in Keywords : ~Contains(low, <<kw, SP>>)

\* the run is past generate_sql without a failure
PastGeneration == pc \in {"execute_query", "read_sql", "generate_answer",
                          "generate_visualization", "return"}

C2_AsStated ==
  (step >= 1 /\ first.ok) =>
     \A kw \in Keywords : ~Contains(Lower(first.sql), <<kw>>)

\* C2 amended: a text _sanitize_sql returns contains none of the seven keywords
\* immediately followed by a space character, as a case-insensitive substring.
C2_Amended ==
  (step >= 1 /\ first.ok) =>
     \A kw \in Keywords : ~Contains(Lower(first.sql), <<kw, SP>>)

\* C2 witness: _sanitize_sql returned a text that holds a keyword, in upper
\* case, not followed by a space.
C2_Witness ==
  /\ step >= 1 /\ first.ok
  /\ Contains(first.sql, <<"DELETE">>)

\* C3 as stated: a raw text that contains a forbidden keyword followed by
\* whitespace (space or tab) makes _sanitize_sql fail.
C3_AsStated ==
  (step >= 1 /\ \E kw \in Keywords, w \in {SP, TAB} : Contains(Lower(input), <<kw, w>>))
     => ~first.ok

\* C4 as stated: _sanitize_sql applied to a text it returned succeeds and
\* returns that text.
C4_AsStated ==
  (step = 2) => (second.ok /\ second.sql = first.sql)

\* C5 as stated: a Failure after SQL generation succeeded carries the generated
\* sql, both in what query returns and in the detail of the client error of /ask.
C5_AsStated ==
  /\ (response # None /\ ~response[1].success) =>
        /\ response[1].sql = sql
        /\ (sql = None) <=> (raisedBy = "generate_sql")
  /\ (http # None /\ http[1].status = 400) =>
        /\ {"error", "suggestion"} \subseteq DOMAIN http[1].detail
        /\ (sql # None => /\ "sql" \in DOMAIN http[1].detail
                          /\ http[1].detail.sql = sql)

\* generate_visualization has returned and query has not yet built its response
Rendered == pc = "return"

\* C6 as stated: generate_visualization returns null for an empty ResultSet and
\* for a ResultSet no chart rule matches, non-null for date with total_sales,
\* and never raises.
C6_AsStated ==
  /\ raisedBy # "generate_visualization"
  /\ Rendered =>
       LET cols == executed[1].columns IN
       /\ Empty(executed[1]) => visualization = None
       /\ (~Empty(executed[1]) /\ "date" \in cols
             /\ "total_sales" \notin cols /\ "ad_sales" \notin cols)
            => visualization = None
       /\ (~Empty(executed[1]) /\ "date" \notin cols
             /\ ~({"item_id", "ad_sales", "ad_spend"} \subseteq cols))
            => visualization = None
       /\ (~Empty(executed[1]) /\ "date" \in cols /\ "total_sales" \in cols)
            => visualization # None

\* the invoked stages are a prefix of the fixed order
InOrder == Len(calls) <= Len(StageOrder) /\ calls = SubSeq(StageOrder, 1, Len(calls))

\* C7: the stages are invoked in the fixed order, each at most once; once a
\* stage has raised no later stage is invoked; query ends with Success after
\* all four stages or with Failure after the stage that raised.
C7_StagesShortCircuit ==
  /\ InOrder
  /\ exc # None =>
       /\ raisedBy \in {"generate_sql", "execute_query", "generate_answer"}
       /\ calls # <<>> /\ calls[Len(calls)] = raisedBy
       /\ pc \in {"except", "returned", "idle"}
  /\ exc = None => raisedBy = ""
  /\ response # None =>
       /\ response[1].success \in BOOLEAN
       /\ response[1].success => (exc = None /\ calls = StageOrder)
       /\ ~response[1].success => (exc # None /\ response[1].error = exc[1])
  /\ pc = "returned" => response # None
  /\ http # None => response # None

\* C7 witness: execute_query raised and query returned a Failure with neither
\* generate_answer nor generate_visualization invoked.
C7_Witness ==
  /\ pc = "returned"
  /\ raisedBy = "execute_query"
  /\ ~response[1].success
  /\ calls = <<"generate_sql", "execute_query">>

\* C8: a Failure carries the suggestion of the first rule its lower-cased error
\* matches: 'no such table', then 'no such column', then 'select', then the
\* generic one; a missing table gets the table names although the message
\* holds 'select' as well.
C8_SuggestionRules ==
  (response # None /\ ~response[1].success) =>
     LET e == Lower(response[1].error)
         table == Contains(e, <<"no such table">>)
         column == Contains(e, <<"no such column">>)
         select == Contains(e, <<"select">>)
         s == response[1].suggestion
     IN  /\ table => s = TableSuggestion
         /\ (~table /\ column) => s = ColumnSuggestion
         /\ (~table /\ ~column /\ select) => s = ExampleSuggestion
         /\ (~table /\ ~column /\ ~select) => s = GenericSuggestion
         /\ (raisedBy = "execute_query" /\ table) => (select /\ s = TableSuggestion)

\* C8 witness: execute_query failed on a missing table; the message holds
\* 'select' too and the suggestion names the tables.
C8_Witness ==
  /\ response # None /\ ~response[1].success
  /\ raisedBy = "execute_query"
  /\ Contains(Lower(response[1].error), <<"no such table">>)
  /\ Contains(Lower(response[1].error), <<"select">>)
  /\ response[1].suggestion = TableSuggestion

\* two DataFrames with the same columns and the same cells
SameResultSet(a, b) ==
  /\ a.columns = b.columns
  /\ Len(a.rows) = Len(b.rows)
  /\ \A i \in 1..Len(a.rows) : \A c \in a.columns : a.rows[i][c] = b.rows[i][c]

\* C9 as stated: generate_visualization leaves the ResultSet unchanged, so
\* generate_answer sees the same rows whichever runs first and a Success
\* returns exactly the rows execute_query returned.
C9_AsStated ==
  /\ (data # None /\ executed # None) => SameResultSet(data[1], executed[1])
  /\ (answerInput # None) => SameResultSet(answerInput[1], executed[1])
  /\ (response # None /\ response[1].success) =>
        SameResultSet(response[1].data, executed[1])

\* C10: execute_query opens at most one connection per call, the rows are
\* materialized while it is open, and it is closed again when execute_query
\* returns or raises: no connection is open outside the with statement.
C10_ConnectionScoped ==
  /\ conns \in {0, 1}
  /\ opened <= 1
  /\ pc # "read_sql" => conns = 0
  /\ pc = "read_sql" => (conns = 1 /\ opened = 1)
  /\ executed # None => connsAtRead = Some(1)

\* C10 witness: pd.read_sql raised inside the with statement and query has
\* returned the Failure with no connection left open.
C10_Witness ==
  /\ pc = "returned"
  /\ raisedBy = "execute_query"
  /\ opened = 1
  /\ conns = 0

C11_GenericReached ==
  /\ response # None /\ ~response[1].success
  /\ raisedBy = "generate_answer"
  /\ response[1].suggestion = GenericSuggestion

====
